---- MODULE Spec2Model ----
(***************************************************************************)
(* Banshee (src/banshee.go): the search orchestration engine.              *)
(*                                                                         *)
(* Go strings are modelled as sequences of one-character strings, the      *)
(* float64 field dynamicDelay as an exact binary64 value (see Delay        *)
(* arithmetic), the process as one main goroutine with a program counter   *)
(* and a stack of return labels, plus the signal goroutine of main().      *)
(***************************************************************************)
EXTENDS Integers, Sequences, FiniteSets, TLC

(***************************************************************************)
(* Bounds of the model.                                                    *)
(***************************************************************************)
MaxKeys == 2
MaxPages == 3
MaxTargets == 2
MaxExts == 2
MaxSignals == 2
MaxLinks == 2
MaxFileLines == 2
MaxWrites == 2
MaxExcl == 3
MaxTerms == 2

(***************************************************************************)
(* Strings.                                                                *)
(***************************************************************************)
UpperChars == <<"A","B","C","D","E","F","G","H","I","J","K","L","M",
                "N","O","P","Q","R","S","T","U","V","W","X","Y","Z">>
LowerChars == <<"a","b","c","d","e","f","g","h","i","j","k","l","m",
                "n","o","p","q","r","s","t","u","v","w","x","y","z">>

\* strings.ToLower on one character
LowerChar(ch) ==
    IF \E i \in 1..26 : UpperChars[i] = ch
    THEN LowerChars[CHOOSE i \in 1..26 : UpperChars[i] = ch]
    ELSE ch

\* the message compared as it came, without strings.ToLower
ToLowerIdentity(s) == s

\* strings.ToLower
ToLower(s) == [i \in 1..Len(s) |-> LowerChar(s[i])]

\* strings.Contains
Contains(s, sub) ==
    \E i \in 0..(Len(s) - Len(sub)) :
        \A j \in 1..Len(sub) : s[i + j] = sub[j]

\* regexp (?i)google, MatchString
googleHostFilter(s) == Contains(ToLower(s), <<"g","o","o","g","l","e">>)

\* uniqueStrings, lines 627-641: the first occurrence of every non-empty
\* string, in the order of in
uniqueStrings(in) ==
    LET keep == { i \in 1..Len(in) :
                    in[i] # <<>> /\ \A j \in 1..(i - 1) : in[j] # in[i] }
    IN [k \in 1..Cardinality(keep) |->
          in[CHOOSE i \in keep : Cardinality({ j \in keep : j < i }) = k - 1]]

\* unicode.IsSpace for the bytes of a Go string below 0x80
SpaceChars == {" ", "x09", "x0A", "x0B", "x0C", "x0D"}

\* strings.TrimSpace
RECURSIVE TrimSpace(_)
TrimSpace(s) ==
    IF s = <<>> THEN <<>>
    ELSE IF Head(s) \in SpaceChars THEN TrimSpace(Tail(s))
    ELSE IF s[Len(s)] \in SpaceChars THEN TrimSpace(SubSeq(s, 1, Len(s) - 1))
    ELSE s

\* readLines on a file given as its lines: every line trimmed, the empty
\* ones left out
RECURSIVE readLines(_)
readLines(file) ==
    IF file = <<>> THEN <<>>
    ELSE LET l == TrimSpace(Head(file))
         IN IF l = <<>> THEN readLines(Tail(file))
            ELSE <<l>> \o readLines(Tail(file))

(***************************************************************************)
(* url.QueryUnescape and urlDecodeLikeSed.  A byte is a one-character      *)
(* string when it is printable ASCII and the token "xHH" otherwise (also  *)
(* for the backquote, which a TLA+ string cannot hold).                    *)
(***************************************************************************)
\* the byte with value b is ByteChars[b + 1]
ByteChars == <<
    "x00", "x01", "x02", "x03", "x04", "x05", "x06", "x07",
    "x08", "x09", "x0A", "x0B", "x0C", "x0D", "x0E", "x0F",
    "x10", "x11", "x12", "x13", "x14", "x15", "x16", "x17",
    "x18", "x19", "x1A", "x1B", "x1C", "x1D", "x1E", "x1F",
    " ", "!", "\"", "#", "$", "%", "&", "'",
    "(", ")", "*", "+", ",", "-", ".", "/",
    "0", "1", "2", "3", "4", "5", "6", "7",
    "8", "9", ":", ";", "<", "=", ">", "?",
    "@", "A", "B", "C", "D", "E", "F", "G",
    "H", "I", "J", "K", "L", "M", "N", "O",
    "P", "Q", "R", "S", "T", "U", "V", "W",
    "X", "Y", "Z", "[", "\\", "]", "^", "_",
    "x60", "a", "b", "c", "d", "e", "f", "g",
    "h", "i", "j", "k", "l", "m", "n", "o",
    "p", "q", "r", "s", "t", "u", "v", "w",
    "x", "y", "z", "{", "|", "}", "~", "x7F",
    "x80", "x81", "x82", "x83", "x84", "x85", "x86", "x87",
    "x88", "x89", "x8A", "x8B", "x8C", "x8D", "x8E", "x8F",
    "x90", "x91", "x92", "x93", "x94", "x95", "x96", "x97",
    "x98", "x99", "x9A", "x9B", "x9C", "x9D", "x9E", "x9F",
    "xA0", "xA1", "xA2", "xA3", "xA4", "xA5", "xA6", "xA7",
    "xA8", "xA9", "xAA", "xAB", "xAC", "xAD", "xAE", "xAF",
    "xB0", "xB1", "xB2", "xB3", "xB4", "xB5", "xB6", "xB7",
    "xB8", "xB9", "xBA", "xBB", "xBC", "xBD", "xBE", "xBF",
    "xC0", "xC1", "xC2", "xC3", "xC4", "xC5", "xC6", "xC7",
    "xC8", "xC9", "xCA", "xCB", "xCC", "xCD", "xCE", "xCF",
    "xD0", "xD1", "xD2", "xD3", "xD4", "xD5", "xD6", "xD7",
    "xD8", "xD9", "xDA", "xDB", "xDC", "xDD", "xDE", "xDF",
    "xE0", "xE1", "xE2", "xE3", "xE4", "xE5", "xE6", "xE7",
    "xE8", "xE9", "xEA", "xEB", "xEC", "xED", "xEE", "xEF",
    "xF0", "xF1", "xF2", "xF3", "xF4", "xF5", "xF6", "xF7",
    "xF8", "xF9", "xFA", "xFB", "xFC", "xFD", "xFE", "xFF" >>

HexDigits == <<"0","1","2","3","4","5","6","7","8","9">>
HexUpper == <<"A","B","C","D","E","F">>
HexLower == <<"a","b","c","d","e","f">>

\* net/url ishex
ishex(ch) ==
    \/ \E i \in 1..10 : HexDigits[i] = ch
    \/ \E i \in 1..6 : HexUpper[i] = ch \/ HexLower[i] = ch

\* net/url unhex
unhex(ch) ==
    IF \E i \in 1..10 : HexDigits[i] = ch
    THEN (CHOOSE i \in 1..10 : HexDigits[i] = ch) - 1
    ELSE IF \E i \in 1..6 : HexUpper[i] = ch
    THEN (CHOOSE i \in 1..6 : HexUpper[i] = ch) + 9
    ELSE (CHOOSE i \in 1..6 : HexLower[i] = ch) + 9

\* first pass of net/url unescape: a "%" not followed by two hex digits
EscapeError(s) ==
    \E i \in 1..Len(s) :
        /\ s[i] = "%"
        /\ \/ i + 2 > Len(s)
           \/ ~ishex(s[i + 1])
           \/ ~ishex(s[i + 2])

\* second pass of net/url unescape in query mode, from position i
RECURSIVE unescapeFrom(_, _)
unescapeFrom(s, i) ==
    IF i > Len(s) THEN <<>>
    ELSE IF s[i] = "%"
    THEN <<ByteChars[16 * unhex(s[i + 1]) + unhex(s[i + 2]) + 1]>>
             \o unescapeFrom(s, i + 3)
    ELSE IF s[i] = "+" THEN <<" ">> \o unescapeFrom(s, i + 1)
    ELSE <<s[i]>> \o unescapeFrom(s, i + 1)

\* the table repls of urlDecodeLikeSed: <<pattern, replacement>>
repls == <<
    << <<"%","2","5","2","0">>, " " >>,
    << <<"%","2","0">>, " " >>,
    << <<"%","3","F">>, "?" >>,
    << <<"%","3","D">>, "=" >>,
    << <<"%","2","1">>, "!" >>,
    << <<"%","2","3">>, "#" >>,
    << <<"%","2","4">>, "$" >>,
    << <<"%","2","B">>, "+" >>,
    << <<"%","2","6">>, "&" >> >>

\* pattern p occurs in s at position i
MatchAt(s, i, p) ==
    /\ i + Len(p) - 1 <= Len(s)
    /\ \A j \in 1..Len(p) : s[i + j - 1] = p[j]

\* strings.ReplaceAll for every entry of repls.  Every pattern starts with
\* its only "%", no two patterns match at one position and no replacement
\* is a pattern character, so the order in which the map is ranged over
\* does not change the result: one scan from the left.
RECURSIVE replaceFrom(_, _)
replaceFrom(s, i) ==
    IF i > Len(s) THEN <<>>
    ELSE IF \E k \in 1..Len(repls) : MatchAt(s, i, repls[k][1])
    THEN LET k == CHOOSE k \in 1..Len(repls) : MatchAt(s, i, repls[k][1])
         IN <<repls[k][2]>> \o replaceFrom(s, i + Len(repls[k][1]))
    ELSE <<s[i]>> \o replaceFrom(s, i + 1)

urlDecodeLikeSed(s) ==
    LET decoded == IF EscapeError(s) THEN s ELSE unescapeFrom(s, 1)
    IN replaceFrom(decoded, 1)

\* the loop of filterLinks before uniqueStrings
RECURSIVE filterKeep(_, _)
filterKeep(items, target) ==
    IF items = <<>> THEN <<>>
    ELSE LET l == Head(items)
             rest == filterKeep(Tail(items), target)
         IN IF l = <<>> THEN rest
            ELSE IF ~Contains(ToLower(l), ToLower(target)) THEN rest
            ELSE IF googleHostFilter(l) THEN rest
            ELSE <<urlDecodeLikeSed(l)>> \o rest

filterLinks(items, target) == uniqueStrings(filterKeep(items, target))

(***************************************************************************)
(* Delay arithmetic.  dynamicDelay is a float64.  With c the float64       *)
(* nearest 0.05 (c = 7205759403792794 * 2^-57), the constant 0.1 is        *)
(* exactly 2c and 0.25 is 5c - 2 * 2^-57, so every value the program       *)
(* computes is n*c + d*2^-57 for a small natural n and a small integer d:  *)
(* the record [n |-> n, d |-> d].  Sums and differences are rounded to     *)
(* nearest, ties to even, at the precision of their binade, as IEEE 754    *)
(* does.                                                                   *)
(***************************************************************************)
\* c mod 2^10, c in units of 2^-57
StepMod1024 == 410

\* the initial value 0.25 set in main
InitialDelay == [n |-> 5, d |-> 0 - 2]

\* 2^j
RECURSIVE Pow2(_)
Pow2(j) == IF j = 0 THEN 1 ELSE 2 * Pow2(j - 1)

\* n*c + d*2^-57 lies in [2^(j-5), 2^(j-4)): its unit in the last place is
\* 2^j * 2^-57.  2^(k-2) is 5 * 2^k * c - 2^(k+1) * 2^-57.
RECURSIVE UlpFrom(_, _, _)
UlpFrom(n, d, k) ==
    LET lim == 10 * Pow2(k)
    IN IF n < lim \/ (n = lim /\ d < 0 - Pow2(k + 2))
       THEN 3 + k
       ELSE UlpFrom(n, d, k + 1)

UlpExp(n, d) ==
    IF n <= 1 THEN 0
    ELSE IF n = 2 THEN 1
    ELSE IF n < 5 \/ (n = 5 /\ d < 0 - 2) THEN 2
    ELSE UlpFrom(n, d, 0)

\* round the exact value n*c + d*2^-57 to a float64
RoundFloat(n, d) ==
    LET j == UlpExp(n, d)
        m == Pow2(j)
        xm == n * StepMod1024 + d + 1048576
        r == xm % m
        up == [n |-> n, d |-> d + m - r]
        down == [n |-> n, d |-> d - r]
    IN IF 2 * r < m THEN down
       ELSE IF 2 * r > m THEN up
       ELSE IF (xm % (2 * m)) >= m THEN up
       ELSE down

\* v > 0
Positive(v) == v.n >= 1 \/ (v.n = 0 /\ v.d > 0)

\* v < 0
Negative(v) == v.n < 0 \/ (v.n = 0 /\ v.d < 0)

\* the guard of the success step written as v > 0
AboveZero(v) == Positive(v)

\* v > 0.05
AboveStep(v) == v.n > 1 \/ (v.n = 1 /\ v.d > 0)

\* v - 0.05
MinusStep(v) == RoundFloat(v.n - 1, v.d)

\* v + 0.1
PlusTenth(v) == RoundFloat(v.n + 2, v.d)

(***************************************************************************)
(* Credential pool.                                                        *)
(***************************************************************************)
\* the loop of getRandomApiKey without its test of exhaustedKeys
AvailableAll(keys, exhausted) == keys

\* the loop of getRandomApiKey: the loaded keys not in exhaustedKeys
Available(keys, exhausted) ==
    SelectSeq(keys, LAMBDA k : k \notin exhausted)

\* the clock readings that getRandomApiKey can tell apart: its index is the
\* reading modulo the number of available keys
ClockReadings == 0..(MaxKeys - 1)

\* getRandomApiKey with the clock reading now: [err, key]
getRandomApiKey(keys, exhausted, now) ==
    LET available == Available(keys, exhausted)
    IN IF Len(available) = 0
       THEN [err |-> TRUE, key |-> ""]
       ELSE [err |-> FALSE, key |-> available[(now % Len(available)) + 1]]

(***************************************************************************)
(* The search provider.  What a query returns for a page is a fixed index  *)
(* (ProviderItems); whether a call gets that list, an off-scope list, an   *)
(* empty list, an error object or a transport error is the provider's and  *)
(* the network's choice.                                                   *)
(***************************************************************************)
Digits == <<"0","1","2","3","4","5","6","7","8","9">>

Scheme == <<"h",":","/","/">>

\* a result on the target's host, one on the provider's own host, one on
\* another host
TargetLink(target, p) == Scheme \o target \o <<"/", Digits[(p % 10) + 1]>>
EscapedLink(target, p) == TargetLink(target, p) \o <<"%","3","F">>
ProviderLink(target) == Scheme \o <<"g","o","o","g","l","e","/">> \o target
OtherLink == Scheme \o <<"o","/">>

ProviderItems(target, start) ==
    LET p == (start - 1) \div 10
    IN <<TargetLink(target, p), ProviderLink(target), <<>>, TargetLink(target, p),
         EscapedLink(target, p)>>

QuotaMessage == <<"Q","u","o","t","a"," ","e","x","c","e","e","d","e","d">>
OtherMessage == <<"I","n","v","a","l","i","d">>

\* what httpGetJSON returns: err is its error result, message the
\* error.message of the decoded body, items the links of the decoded body
Responses(target, start) ==
    { [err |-> TRUE, message |-> <<>>, items |-> <<>>],
      [err |-> FALSE, message |-> QuotaMessage, items |-> <<>>],
      [err |-> FALSE, message |-> OtherMessage, items |-> <<>>],
      [err |-> FALSE, message |-> <<>>, items |-> <<>>],
      [err |-> FALSE, message |-> <<>>, items |-> <<OtherLink, ProviderLink(target)>>],
      [err |-> FALSE, message |-> <<>>, items |-> ProviderItems(target, start)] }

\* the request was made with a context that is cancelled: client.Do fails
CanceledResponse == [err |-> TRUE, message |-> <<>>, items |-> <<>>]

(***************************************************************************)
(* Command lines.  A command line is a record of the flag values that      *)
(* main parses; keys is the content of keys.txt.                           *)
(***************************************************************************)
KeyNames == <<"k1", "k2", "k3">>
TargetNames == << <<"t">>, <<"u">>, <<"v">> >>
ExtNames == <<"pdf", "bak", "doc">>
ContentLines == <<"secret", "token">>

\* the sequences of 1..MaxKeys keys, the first line being k1 (keys are
\* opaque: any other file is one of these up to renaming); a file may
\* hold the same key on several lines
Range(s) == { s[i] : i \in 1..Len(s) }

RECURSIVE KeyFiles(_)
KeyFiles(n) ==
    IF n = 1 THEN { <<KeyNames[1]>> }
    ELSE KeyFiles(n - 1) \cup
         { Append(f, KeyNames[i]) :
             <<f, i>> \in { <<g, j>> \in KeyFiles(n - 1) \X (1..Len(KeyNames)) :
                              Len(g) = n - 1 /\ j <= Cardinality(Range(g)) + 1 } }

\* what the file system holds under a name: nothing, or a file of lines
NoFile == [exists |-> FALSE, lines |-> <<>>]
FileOf(lines) == [exists |-> TRUE, lines |-> lines]

\* without -x and with a -w value that names no file
CommandLine(k, p, d, a, f, q, e, w, s, x, o) ==
    [keys |-> k, pages |-> p, delay |-> d, includeSubdomains |-> a,
     domainsFile |-> f, target |-> TargetNames[1], dork |-> q,
     extension |-> e, dictionary |-> w, subdomainMode |-> s,
     contents |-> x, outputPath |-> o, exclusions |-> <<>>, exclusionsFile |-> NoFile,
     dictionaryFile |-> NoFile]

\* no mode flag given
NoMode == <<"", <<>>, <<>>, FALSE, "">>

\* the modes of a command line: [dork, extension, dictionary, subdomainMode,
\* contents]; no mode, or one of them
Modes ==
    { NoMode, <<"login", <<>>, <<>>, FALSE, "">>,
      <<"", <<>>, <<"a","d","m","i","n">>, FALSE, "">>, <<"", <<>>, <<>>, TRUE, "">>,
      <<"", <<>>, <<>>, FALSE, "secret">>, <<"", <<>>, <<>>, FALSE, "file">> }
    \cup { <<"", SubSeq(ExtNames, 1, n), <<>>, FALSE, "">> : n \in 1..MaxExts }

\* the default of dorkRun for pages == 0
DefaultPages == 10

\* the start offsets of the pages dorkRun can ask for
PageStarts ==
    { 10 * p + 1 :
        p \in 0..((IF MaxPages > DefaultPages THEN MaxPages ELSE DefaultPages) - 1) }

\* filterLinks (line 866) of every list of links a response can carry and
\* every target, as a table (table @@ table is the table written out)
filterLinksOf ==
    LET lists == { r.items : r \in UNION { Responses(t, s) :
                                             t \in Range(TargetNames), s \in PageStarts } }
        table == [x \in lists \X Range(TargetNames) |-> filterLinks(x[1], x[2])]
    IN table @@ table

\* command lines of one custom query on one target: any key file with
\* every page count, with the subdomain setting for the key files of at
\* most two lines (an attempt is then four calls), and one key with the
\* default page count (0) and with a static delay
RunLines ==
    { CommandLine(k, p, 0, a, <<>>, "login", <<>>, <<>>, FALSE, "", "") :
        <<k, a>> \in { x \in KeyFiles(MaxKeys) \X BOOLEAN : x[2] => Len(x[1]) <= 2 },
        p \in 1..MaxPages }
    \cup { CommandLine(<<KeyNames[1]>>, p, d, a, <<>>, "login", <<>>, <<>>, FALSE, "", "") :
             p \in 0..MaxPages, d \in {0, 2}, a \in BOOLEAN }

\* command lines of one target: any mode and page count, printed or
\* written to a file
TargetLines ==
    { CommandLine(<<KeyNames[1]>>, p, 0, FALSE, <<>>, m[1], m[2], m[3], m[4], m[5], o) :
        p \in 1..MaxPages, m \in Modes, o \in {"", "out.txt"} }

\* command lines of a file of targets: the modes of one search per target
FileLines ==
    { CommandLine(<<KeyNames[1]>>, p, 0, FALSE, SubSeq(TargetNames, 1, n),
                  m[1], m[2], m[3], m[4], m[5], o) :
        p \in 1..MaxPages, n \in 1..MaxTargets,
        m \in { x \in Modes : Len(x[2]) <= 1 /\ x[5] # "file" },
        o \in {"", "out.txt"} }

\* command lines of every flow
FlowLines == TargetLines \cup FileLines

CommandLines == RunLines \cup FlowLines

\* the concatenation of the sequences of ss
RECURSIVE Flatten(_)
Flatten(ss) == IF ss = <<>> THEN <<>> ELSE Head(ss) \o Flatten(Tail(ss))

\* strings.Split(s, sep) for a separator of one character
RECURSIVE Split(_, _)
Split(s, sep) ==
    IF \E i \in 1..Len(s) : s[i] = sep
    THEN LET i == CHOOSE i \in 1..Len(s) :
                     s[i] = sep /\ \A j \in 1..(i - 1) : s[j] # sep
         IN <<SubSeq(s, 1, i - 1)>> \o Split(SubSeq(s, i + 1, Len(s)), sep)
    ELSE <<s>>

\* the loops of lines 367-373 and 375-381, and of lines 806-810 and
\* 818-822: every entry trimmed, the empty ones left out
RECURSIVE TrimmedParts(_)
TrimmedParts(ss) ==
    IF ss = <<>> THEN <<>>
    ELSE LET ex == TrimSpace(Head(ss))
         IN IF ex = <<>> THEN TrimmedParts(Tail(ss))
            ELSE <<ex>> \o TrimmedParts(Tail(ss))

\* buildExclusions; file is what the file system holds under the name
\* exclusions (fileExists, readLines)
buildExclusions(exclusions, multiline, file) ==
    LET parts == IF file.exists THEN TrimmedParts(readLines(file.lines))
                 ELSE IF \E i \in 1..Len(exclusions) : exclusions[i] = ","
                 THEN TrimmedParts(Split(exclusions, ","))
                 ELSE <<TrimSpace(exclusions)>>
    IN IF Len(parts) > 0
       THEN <<"-","s","i","t","e",":">> \o parts[1]
              \o Flatten([i \in 1..(Len(parts) - 1) |-> <<"+","-">> \o parts[i + 1]])
       ELSE <<>>

\* strings.Split(s, sep) for a separator of one character or more
RECURSIVE SplitSeq(_, _)
SplitSeq(s, sep) ==
    IF \E i \in 1..Len(s) : MatchAt(s, i, sep)
    THEN LET i == CHOOSE i \in 1..Len(s) :
                     MatchAt(s, i, sep) /\ \A j \in 1..(i - 1) : ~MatchAt(s, j, sep)
         IN <<SubSeq(s, 1, i - 1)>> \o SplitSeq(SubSeq(s, i + Len(sep), Len(s)), sep)
    ELSE <<s>>

\* strings.Join(ss, sep)
Join(ss, sep) ==
    Flatten([i \in 1..Len(ss) |-> (IF i = 1 THEN <<>> ELSE sep) \o ss[i]])

\* strings.Trim(s, `"`)
RECURSIVE TrimQuotes(_)
TrimQuotes(s) ==
    IF s = <<>> THEN <<>>
    ELSE IF Head(s) = "\"" THEN TrimQuotes(Tail(s))
    ELSE IF s[Len(s)] = "\"" THEN TrimQuotes(SubSeq(s, 1, Len(s) - 1))
    ELSE s

\* clean of buildInurlQuery (lines 429-434)
clean(s) == TrimQuotes(TrimSpace(s))

\* the loops of lines 439-443 and 445-449: every entry cleaned, the empty
\* ones left out
RECURSIVE CleanedTerms(_)
CleanedTerms(ss) ==
    IF ss = <<>> THEN <<>>
    ELSE LET t == clean(Head(ss))
         IN IF t = <<>> THEN CleanedTerms(Tail(ss))
            ELSE <<t>> \o CleanedTerms(Tail(ss))

\* the sentinel buildInurlQuery joins the terms with
Sentinel == <<"|","|","|">>

\* buildInurlQuery; file is what the file system holds under the name dict
buildInurlQuery(dict, file) ==
    LET terms == IF file.exists THEN CleanedTerms(readLines(file.lines))
                 ELSE IF \E i \in 1..Len(dict) : dict[i] = ","
                 THEN CleanedTerms(Split(dict, ","))
                 ELSE CleanedTerms(<<dict>>)
    IN Join(terms, Sentinel)

\* buildContentsQuery for a value that is not a file: one intext clause
buildContentsQuery(contents) == <<contents>>

(***************************************************************************)
(* The queries of one attempt (dorkRun, the switch building urls).  A      *)
(* query is [scope, clause, term, excl]: scope is the number of "*." levels *)
(* of its site: prefix, clause the operator that follows, term its         *)
(* operand, excl what follows them after a space (nothing when empty).     *)
(* A transport call is [key, start, q].                                    *)
(***************************************************************************)
Query(scope, clause, term) ==
    [scope |-> scope, clause |-> clause, term |-> term, excl |-> <<>>]

\* withExcl leaving the query as it is
withExclOmitted(c, q) == q

\* withExcl (lines 742-747)
withExcl(c, q) ==
    IF c.excludeTargets # <<>> THEN [q EXCEPT !.excl = c.excludeTargets] ELSE q

buildQueries(cl, c, ext) ==
    LET Q(scope, clause, term) == withExcl(c, Query(scope, clause, term)) IN
    IF cl.dork # ""
    THEN IF cl.includeSubdomains
         THEN << Q(1, "dork -www", cl.dork), Q(2, "dork", cl.dork),
                 Q(3, "dork", cl.dork), Q(1, "dork -www -common", cl.dork) >>
         ELSE << Q(0, "dork", cl.dork) >>
    ELSE IF ext # ""
    THEN LET buildQ(scope) == << Q(scope, "filetype", ext), Q(scope, "ext", ext) >>
         IN IF cl.includeSubdomains
            THEN buildQ(0) \o buildQ(1) \o buildQ(2) \o buildQ(3)
            ELSE buildQ(0)
    ELSE IF cl.dictionary # ""
    THEN LET split == IF c.inUrl # <<>> THEN SplitSeq(c.inUrl, Sentinel) ELSE <<>>
             terms == TrimmedParts(IF Len(split) = 0 THEN <<cl.dictionary>> ELSE split)
         IN IF cl.includeSubdomains
            THEN Flatten([i \in 1..Len(terms) |->
                    << Q(1, "inurl", terms[i]), Q(2, "inurl", terms[i]),
                       Q(3, "inurl", terms[i]) >>])
            ELSE [i \in 1..Len(terms) |-> Q(0, "inurl", terms[i])]
    ELSE IF c.contents # ""
    THEN IF cl.includeSubdomains
         THEN << Q(1, "intext", c.inFile), Q(2, "intext", c.inFile),
                 Q(3, "intext", c.inFile) >>
         ELSE << Q(0, "intext", c.inFile) >>
    ELSE << Q(0, "", "") >>

buildURLs(cl, c, ext, key, start) ==
    LET qs == buildQueries(cl, c, ext)
    IN [i \in 1..Len(qs) |-> [key |-> key, start |-> start, q |-> qs[i]]]

(***************************************************************************)
(* State.                                                                  *)
(***************************************************************************)
VARIABLES
    cli,            \* the command line; cli.keys is Config.apiKeys (never changes)
    quotaKey,       \* the provider: "" when it answers each call as it likes, or
                    \* the key whose calls all get a quota error while the calls
                    \* of every other key get results (never changes)
    exhaustedKeys,  \* Config.exhaustedKeys: a map, shared by every copy of Config
    frames,         \* the Config values: main's cfg, then the copies c2 made by
                    \* readDomainsFile and contentsAttack; the last is the receiver
    run,            \* the local variables of dorkRun while it runs, else NoRun
    pc,             \* the statement the main goroutine is at
    stack,          \* the statements to return to
    res,            \* the value returned by dorkRun, until the caller has used it
    all,            \* extensionAttack: all
    eIdx,           \* extensionAttack: position of the range over exts
    tIdx,           \* readDomainsFile: position of the range over lines
    cIdx,           \* contentsAttack: position of the range over lines
    ran,            \* main: ran
    rdfErr,         \* readDomainsFile returned context.Canceled
    sigCh,          \* main: the channel sigCh
    count,          \* signal goroutine: count
    cancelled,      \* ctx.Err() != nil
    exitCode,       \* "running", or the exit status of the process
    output,         \* the lines printed or appended to the output file
    hist,           \* history of the current dorkRun (see NoHist)
    unflushed,      \* history: links dorkRun stored before any cancellation and
                    \* that were not handed to the sink
    aborted,        \* history: a call in progress failed because ctx was cancelled
    cutShort,       \* history: a cancellation check stopped work
    unitCall        \* one call of a function taken on its own: its arguments
                    \* and its result (NoCall while main runs)

sigVars == <<sigCh, count, cancelled>>
loopVars == <<all, eIdx, tIdx, cIdx, ran, rdfErr>>
inVars == <<cli, quotaKey, unitCall>>
sysVars == <<inVars, exhaustedKeys, sigVars>>
vars == <<sysVars, frames, run, pc, stack, res, loopVars, exitCode, output, hist,
          unflushed, aborted, cutShort>>
\* everything but unitCall
mainVars == <<cli, quotaKey, exhaustedKeys, sigVars, frames, run, pc, stack, res,
              loopVars, exitCode, output, hist, unflushed, aborted, cutShort>>

\* Config.apiKeys, as readApiKeysFromFile loaded it
apiKeys == cli.keys

\* the receiver of the method being executed
c == frames[Len(frames)]
SetC(f) == [frames EXCEPT ![Len(frames)] = f]

Running == exitCode = "running"

\* the main goroutine is at statement l
At(l) == Running /\ pc = l

\* capacity of sigCh
SigBuffer == 2

NoRun == <<>>

\* history of one dorkRun:
\*   attempts      credential selections made for the current page
\*   triedOnPage   the credentials selected for the current page
\*   pageDelay     dynamicDelay when the current page was started
\*   startsIssued  start offsets of the calls issued
\*   yielded       the links each successful page added to requestStore
\*   obtained      links filtered out of the responses
\*   retVia        the return statement dorkRun left by
\*   answer        what the call handled last returned, until the next step
\*                 of the loop over the queries
\*   needWait      an attempt ended and no sleep followed yet
\* no call was handled
NoAnswer == [err |-> FALSE, message |-> <<>>, items |-> <<"none">>]

NoHist == [attempts |-> 0, triedOnPage |-> {}, pageDelay |-> InitialDelay,
           startsIssued |-> {}, yielded |-> <<>>,
           obtained |-> {}, retVia |-> "none", answer |-> NoAnswer,
           needWait |-> FALSE]

\* main's cfg after the flags are parsed and the helpers of lines 176-184 ran
MainConfig(cl) ==
    [target |-> cl.target, pages |-> cl.pages, dynamicDelay |-> InitialDelay,
     contents |-> cl.contents,
     inFile |-> IF cl.contents = "" THEN <<>>
                ELSE IF cl.contents = "file" THEN <<ContentLines[1]>>
                ELSE buildContentsQuery(cl.contents),
     inUrl |-> IF cl.dictionary # <<>>
               THEN buildInurlQuery(cl.dictionary, cl.dictionaryFile)
               ELSE <<>>,
     excludeTargets |-> IF cl.exclusions # <<>>
                        THEN buildExclusions(cl.exclusions, cl.includeSubdomains,
                                             cl.exclusionsFile)
                        ELSE <<>>,
     requestStore |-> <<>>, resultsFound |-> FALSE]

\* no function is called on its own
NoCall == [op |-> "none"]

InitWith(lines, calls) ==
    /\ cli \in lines
    /\ unitCall \in calls
    /\ quotaKey \in {""} \cup (IF Cardinality(Range(cli.keys)) = 2
                            THEN Range(cli.keys) ELSE {})
    /\ exhaustedKeys = {}
    /\ frames = << MainConfig(cli) >>
    /\ run = NoRun
    /\ pc = "main"
    /\ stack = <<>>
    /\ res = <<>>
    /\ all = <<>>
    /\ eIdx = 1
    /\ tIdx = 1
    /\ cIdx = 1
    /\ ran = FALSE
    /\ rdfErr = FALSE
    /\ sigCh = <<>>
    /\ count = 0
    /\ cancelled = FALSE
    /\ exitCode = "running"
    /\ output = <<>>
    /\ hist = NoHist
    /\ unflushed = {}
    /\ aborted = FALSE
    /\ cutShort = FALSE

Init == InitWith(FlowLines, {NoCall})

InitRun == InitWith(RunLines, {NoCall})

(***************************************************************************)
(* dorkRun.  Its local variables are the record run; requestStore and      *)
(* resultsFound are fields of the receiver.                                *)
(***************************************************************************)
\* call the function starting at entry and come back to ret
Call(entry, ret) == pc' = entry /\ stack' = <<ret>> \o stack

\* return to the caller
Return == pc' = Head(stack) /\ stack' = Tail(stack)

\* dorkRun returning nil where it returns c.requestStore
ReturnNil(v, via) ==
    /\ res' = <<>>
    /\ hist' = [hist EXCEPT !.retVia = via]
    /\ run' = NoRun
    /\ Return

\* return v from dorkRun by the return statement named via
ReturnFromRun(v, via) ==
    /\ res' = v
    /\ hist' = [hist EXCEPT !.retVia = via]
    /\ run' = NoRun
    /\ Return

\* delayControl sleeps: the effective delay is positive
Sleeps(cfg) == IF cli.delay > 0 THEN TRUE ELSE Positive(cfg.dynamicDelay)

\* a caller calls dorkRun(ctx, e) and continues at ret
CallRun(e, ret) ==
    /\ run' = [ext |-> e, page |-> 0, triedKeys |-> 0, apiKey |-> "", urls |-> <<>>,
               urlIdx |-> 1, combined |-> <<>>, respErr |-> FALSE, inflight |-> <<>>]
    /\ Call("dr_start", ret)

\* lines 706-713: the resets and the default page count
RunStart ==
    /\ At("dr_start")
    /\ frames' = SetC([c EXCEPT !.requestStore = <<>>, !.resultsFound = FALSE,
                               !.pages = IF @ = 0 THEN DefaultPages ELSE @])
    /\ run' = [run EXCEPT !.page = 0]
    /\ pc' = "dr_page"
    /\ hist' = NoHist
    /\ UNCHANGED <<sysVars, stack, res, loopVars, exitCode, output, unflushed,
                   aborted, cutShort>>

\* lines 715-723: the head of the page loop
PageLoop ==
    /\ At("dr_page")
    /\ IF run.page < c.pages
       THEN IF cancelled
            THEN /\ ReturnFromRun(c.requestStore, "page")
                 /\ cutShort' = TRUE
            ELSE /\ run' = [run EXCEPT !.triedKeys = 0]
                 /\ hist' = [hist EXCEPT !.attempts = 0, !.triedOnPage = {},
                                         !.pageDelay = c.dynamicDelay]
                 /\ pc' = "dr_attempt"
                 /\ UNCHANGED <<res, stack, cutShort>>
       ELSE /\ pc' = "dr_finish"
            /\ UNCHANGED <<res, stack, cutShort, run, hist>>
    /\ UNCHANGED <<sysVars, frames, loopVars, exitCode, output, unflushed, aborted>>

\* the offset of line 720 counted from 0
startIdxZeroBased(page) == page * 10

\* line 720: the start offset of the calls of a page (the provider counts
\* results from 1)
startIdx(page) == page * 10 + 1

\* lines 725-845: the head of the attempt loop, the key and the queries
AttemptLoop ==
    /\ At("dr_attempt")
    /\ IF run.triedKeys < Len(apiKeys)
       THEN IF cancelled
            THEN /\ ReturnFromRun(c.requestStore, "attempt")
                 /\ cutShort' = TRUE
            ELSE \E now \in ClockReadings :
                    LET r == getRandomApiKey(apiKeys, exhaustedKeys, now)
                    IN IF r.err \/ r.key = ""
                       THEN /\ ReturnFromRun(c.requestStore, "nokeys")
                            /\ UNCHANGED cutShort
                       ELSE /\ run' = [run EXCEPT
                                        !.apiKey = r.key,
                                        !.urls = buildURLs(cli, c, run.ext, r.key,
                                                           startIdx(run.page)),
                                        !.urlIdx = 1,
                                        !.combined = <<>>,
                                        !.respErr = FALSE]
                            /\ hist' = [hist EXCEPT !.attempts = @ + 1,
                                                    !.triedOnPage = @ \cup {r.key}]
                            /\ pc' = "dr_call"
                            /\ UNCHANGED <<res, stack, cutShort>>
       ELSE /\ pc' = "dr_pageend"
            /\ UNCHANGED <<res, stack, cutShort, run, hist>>
    /\ UNCHANGED <<sysVars, frames, loopVars, exitCode, output, unflushed, aborted>>

\* lines 847-851: the head of the range over urls and the request
IssueCall ==
    /\ At("dr_call")
    /\ IF run.urlIdx <= Len(run.urls)
       THEN IF cancelled
            THEN /\ ReturnFromRun(c.requestStore, "call")
                 /\ cutShort' = TRUE
            ELSE /\ run' = [run EXCEPT !.inflight = run.urls[run.urlIdx]]
                 /\ hist' = [hist EXCEPT
                              !.startsIssued = @ \cup {run.urls[run.urlIdx].start},
                              !.answer = NoAnswer]
                 /\ pc' = "dr_resp"
                 /\ UNCHANGED <<res, stack, cutShort>>
       ELSE /\ pc' = "dr_eval"
            /\ hist' = [hist EXCEPT !.answer = NoAnswer]
            /\ UNCHANGED <<res, stack, cutShort, run>>
    /\ UNCHANGED <<sysVars, frames, loopVars, exitCode, output, unflushed, aborted>>

\* what the call in progress can return.  The request carries ctx (line
\* 548): once ctx is cancelled client.Do fails with context.Canceled.
Answers(target, call) ==
    IF cancelled THEN {CanceledResponse}
    ELSE IF quotaKey = "" THEN Responses(target, call.start)
    ELSE IF call.key = quotaKey
    THEN { [err |-> FALSE, message |-> QuotaMessage, items |-> <<>>] }
    ELSE { [err |-> FALSE, message |-> <<>>,
            items |-> ProviderItems(target, call.start)] }

\* HandleResponse marking the key on every error message of the provider
HandleResponseMarksAny ==
    /\ At("dr_resp")
    /\ \E r \in Answers(c.target, run.inflight) :
          IF r.err
          THEN /\ run' = [run EXCEPT !.respErr = TRUE, !.inflight = <<>>,
                                     !.urlIdx = @ + 1]
               /\ hist' = [hist EXCEPT !.answer = r]
               /\ UNCHANGED exhaustedKeys
          ELSE IF r.message # <<>>
          THEN /\ exhaustedKeys' =
                    IF TRUE
                    THEN exhaustedKeys \cup {run.apiKey}
                    ELSE exhaustedKeys
               /\ run' = [run EXCEPT !.respErr = TRUE, !.inflight = <<>>,
                                     !.urlIdx = @ + 1]
               /\ hist' = [hist EXCEPT !.answer = r]
          ELSE LET links == filterLinksOf[<<r.items, c.target>>]
               IN /\ run' = [run EXCEPT !.combined = @ \o links, !.inflight = <<>>,
                                        !.urlIdx = @ + 1]
                  /\ hist' = [hist EXCEPT !.obtained = @ \cup Range(links),
                                          !.answer = r]
                  /\ UNCHANGED exhaustedKeys
    /\ aborted' = (aborted \/ cancelled)
    /\ pc' = "dr_call"
    /\ UNCHANGED <<inVars, sigVars, frames, stack, res, loopVars, exitCode,
                   output, unflushed, cutShort>>

\* HandleResponse sending the same request again after a transport error
HandleResponseRetriesOnError ==
    /\ At("dr_resp")
    /\ \E r \in Answers(c.target, run.inflight) :
          IF r.err
          THEN /\ run' = [run EXCEPT !.respErr = TRUE, !.inflight = <<>>]
               /\ hist' = [hist EXCEPT !.answer = r]
               /\ UNCHANGED exhaustedKeys
          ELSE IF r.message # <<>>
          THEN /\ exhaustedKeys' =
                    IF Contains(ToLower(r.message), <<"q","u","o","t","a">>)
                    THEN exhaustedKeys \cup {run.apiKey}
                    ELSE exhaustedKeys
               /\ run' = [run EXCEPT !.respErr = TRUE, !.inflight = <<>>,
                                     !.urlIdx = @ + 1]
               /\ hist' = [hist EXCEPT !.answer = r]
          ELSE LET links == filterLinksOf[<<r.items, c.target>>]
               IN /\ run' = [run EXCEPT !.combined = @ \o links, !.inflight = <<>>,
                                        !.urlIdx = @ + 1]
                  /\ hist' = [hist EXCEPT !.obtained = @ \cup Range(links),
                                          !.answer = r]
                  /\ UNCHANGED exhaustedKeys
    /\ aborted' = (aborted \/ cancelled)
    /\ pc' = "dr_call"
    /\ UNCHANGED <<inVars, sigVars, frames, stack, res, loopVars, exitCode,
                   output, unflushed, cutShort>>

\* lines 851-868: httpGetJSON returns and the response is handled
HandleResponse ==
    /\ At("dr_resp")
    /\ \E r \in Answers(c.target, run.inflight) :
          IF r.err
          THEN /\ run' = [run EXCEPT !.respErr = TRUE, !.inflight = <<>>,
                                     !.urlIdx = @ + 1]
               /\ hist' = [hist EXCEPT !.answer = r]
               /\ UNCHANGED exhaustedKeys
          ELSE IF r.message # <<>>
          THEN /\ exhaustedKeys' =
                    IF Contains(ToLower(r.message), <<"q","u","o","t","a">>)
                    THEN exhaustedKeys \cup {run.apiKey}
                    ELSE exhaustedKeys
               /\ run' = [run EXCEPT !.respErr = TRUE, !.inflight = <<>>,
                                     !.urlIdx = @ + 1]
               /\ hist' = [hist EXCEPT !.answer = r]
          ELSE LET links == filterLinksOf[<<r.items, c.target>>]
               IN /\ run' = [run EXCEPT !.combined = @ \o links, !.inflight = <<>>,
                                        !.urlIdx = @ + 1]
                  /\ hist' = [hist EXCEPT !.obtained = @ \cup Range(links),
                                          !.answer = r]
                  /\ UNCHANGED exhaustedKeys
    /\ aborted' = (aborted \/ cancelled)
    /\ pc' = "dr_call"
    /\ UNCHANGED <<inVars, sigVars, frames, stack, res, loopVars, exitCode,
                   output, unflushed, cutShort>>

\* lines 871-886: the end of an attempt
EndAttempt ==
    /\ At("dr_eval")
    /\ LET merged == uniqueStrings(run.combined)
       IN /\ run' = [run EXCEPT
                      !.combined = merged,
                      !.triedKeys = IF Len(merged) = 0 /\ run.respErr THEN @ + 1 ELSE @]
          /\ IF Len(merged) > 0
             THEN /\ frames' = SetC([c EXCEPT
                        !.requestStore = @ \o merged,
                        !.resultsFound = TRUE,
                        !.dynamicDelay = IF cli.delay = 0 /\ AboveStep(@)
                                         THEN MinusStep(@) ELSE @])
                  /\ hist' = [hist EXCEPT !.yielded = Append(@, merged),
                                          !.needWait = TRUE]
                  /\ unflushed' = IF cancelled THEN unflushed
                                  ELSE unflushed \cup Range(merged)
                  /\ pc' = "dr_pageend"
             ELSE /\ pc' = IF run.respErr THEN "dr_delay" ELSE "dr_empty"
                  /\ hist' = [hist EXCEPT !.needWait = TRUE]
                  /\ UNCHANGED <<frames, unflushed>>
    /\ UNCHANGED <<sysVars, stack, res, loopVars, exitCode, output, aborted, cutShort>>

\* EmptyResponse without the test of the fixed delay at line 890
EmptyResponseAlways ==
    /\ At("dr_empty")
    /\ hist' = [hist EXCEPT !.needWait = (@ /\ ~Sleeps(c))]
    /\ run' = [run EXCEPT !.triedKeys = Len(apiKeys)]
    /\ frames' = SetC([c EXCEPT !.dynamicDelay = PlusTenth(@)])
    /\ pc' = "dr_delay"
    /\ UNCHANGED <<sysVars, stack, res, loopVars, exitCode, output, unflushed,
                   aborted, cutShort>>

\* lines 887-892: the response was empty: a sleep, then the attempt budget
\* of the page is used up and the delay grows
EmptyResponse ==
    /\ At("dr_empty")
    /\ hist' = [hist EXCEPT !.needWait = (@ /\ ~Sleeps(c))]
    /\ run' = [run EXCEPT !.triedKeys = Len(apiKeys)]
    /\ frames' = IF cli.delay = 0
                 THEN SetC([c EXCEPT !.dynamicDelay = PlusTenth(@)])
                 ELSE frames
    /\ pc' = "dr_delay"
    /\ UNCHANGED <<sysVars, stack, res, loopVars, exitCode, output, unflushed,
                   aborted, cutShort>>

\* line 894: delayControl at the end of the attempt loop's body
AttemptDelay ==
    /\ At("dr_delay")
    /\ hist' = [hist EXCEPT !.needWait = (@ /\ ~Sleeps(c))]
    /\ pc' = "dr_attempt"
    /\ UNCHANGED <<sysVars, frames, run, stack, res, loopVars, exitCode, output,
                   unflushed, aborted, cutShort>>

\* EndPage without the break of lines 897-899
EndPageAlways ==
    /\ At("dr_pageend")
    /\ frames' = SetC([c EXCEPT !.resultsFound = FALSE])
    /\ run' = [run EXCEPT !.page = @ + 1]
    /\ pc' = "dr_page"
    /\ UNCHANGED <<sysVars, stack, res, loopVars, exitCode, output, hist, unflushed,
                   aborted, cutShort>>

\* lines 897-901: the end of a page
EndPage ==
    /\ At("dr_pageend")
    /\ IF ~c.resultsFound
       THEN pc' = "dr_finish" /\ UNCHANGED <<frames, run>>
       ELSE /\ frames' = SetC([c EXCEPT !.resultsFound = FALSE])
            /\ run' = [run EXCEPT !.page = @ + 1]
            /\ pc' = "dr_page"
    /\ UNCHANGED <<sysVars, stack, res, loopVars, exitCode, output, hist, unflushed,
                   aborted, cutShort>>

\* lines 904-908: the return after the page loop
FinishRun ==
    /\ At("dr_finish")
    /\ ReturnFromRun(IF Len(c.requestStore) = 0 THEN <<>> ELSE c.requestStore, "end")
    /\ UNCHANGED <<sysVars, frames, loopVars, exitCode, output, unflushed, aborted,
                   cutShort>>

(***************************************************************************)
(* The output sink.                                                        *)
(***************************************************************************)
\* the byte value of a character
Code(ch) == CHOOSE i \in 1..256 : ByteChars[i] = ch

\* a < b for Go strings
RECURSIVE LessStr(_, _)
LessStr(a, b) ==
    IF b = <<>> THEN FALSE
    ELSE IF a = <<>> THEN TRUE
    ELSE IF Head(a) = Head(b) THEN LessStr(Tail(a), Tail(b))
    ELSE Code(Head(a)) < Code(Head(b))

\* sort.Strings
RECURSIVE SortStrings(_)
SortStrings(s) ==
    IF s = <<>> THEN <<>>
    ELSE LET m == CHOOSE i \in 1..Len(s) : \A j \in 1..Len(s) : ~LessStr(s[j], s[i])
         IN <<s[m]>> \o SortStrings(SubSeq(s, 1, m - 1) \o SubSeq(s, m + 1, Len(s)))

\* the lines that writing u and a newline adds to a stream that ends with a
\* newline (fmt.Println, or WriteString and WriteByte at lines 513-514): u
\* cut at every newline it holds
RECURSIVE WrittenLines(_)
WrittenLines(u) ==
    IF \E i \in 1..Len(u) : u[i] = "x0A"
    THEN LET i == CHOOSE i \in 1..Len(u) :
                     u[i] = "x0A" /\ \A j \in 1..(i - 1) : u[j] # "x0A"
         IN <<SubSeq(u, 1, i - 1)>> \o WrittenLines(SubSeq(u, i + 1, Len(u)))
    ELSE <<u>>

\* the loop of lines 511-517: the entries that are not among existing are
\* written, each followed by a newline, and join existing
RECURSIVE AppendNew(_, _, _)
AppendNew(file, uniq, existing) ==
    IF uniq = <<>> THEN file
    ELSE IF Head(uniq) \in existing THEN AppendNew(file, Tail(uniq), existing)
    ELSE AppendNew(file \o WrittenLines(Head(uniq)), Tail(uniq),
                   existing \cup {Head(uniq)})

\* outputOrPrintUnique: the lines of the sink (standard output, or the
\* output file, which the program creates and ends with a newline) after
\* the call.  Without an output path every unique entry is printed; with
\* one, the entries that are not among the lines read from the file are
\* appended.
outputOrPrintUnique(out, urlList, outputPath) ==
    LET uniq == SortStrings(uniqueStrings(urlList))
    IN IF outputPath = ""
       THEN out \o Flatten([i \in 1..Len(uniq) |-> WrittenLines(uniq[i])])
       ELSE AppendNew(out, uniq, Range(readLines(out)))

\* hostOf for the links of the provider's index: what follows "://" up to
\* the next "/"
RECURSIVE UpToSlash(_)
UpToSlash(s) ==
    IF s = <<>> \/ Head(s) = "/" THEN <<>> ELSE <<Head(s)>> \o UpToSlash(Tail(s))

hostOf(raw) ==
    IF \E i \in 1..Len(raw) : MatchAt(raw, i, <<":","/","/">>)
    THEN LET i == CHOOSE i \in 1..Len(raw) :
                     /\ MatchAt(raw, i, <<":","/","/">>)
                     /\ \A j \in 1..(i - 1) : ~MatchAt(raw, j, <<":","/","/">>)
         IN UpToSlash(SubSeq(raw, i + 3, Len(raw)))
    ELSE UpToSlash(raw)

(***************************************************************************)
(* The callers of dorkRun.  A caller that has used the result of dorkRun   *)
(* leaves res empty and the history of that dorkRun cleared.               *)
(***************************************************************************)
\* hand lines to the sink; they stand for links
Flush(lines, links) ==
    /\ output' = outputOrPrintUnique(output, lines, cli.outputPath)
    /\ unflushed' = unflushed \ Range(links)

\* the caller is done with the result of dorkRun
Used == res' = <<>> /\ hist' = NoHist

\* dictionaryAttack (lines 911-918), subdomainAttack (990-994): up to the
\* call of dorkRun
AttackStart(l, ret) ==
    /\ At(l)
    /\ CallRun("", ret)
    /\ UNCHANGED <<sysVars, frames, res, loopVars, exitCode, output, hist, unflushed,
                   aborted, cutShort>>

\* dictionaryAttack (lines 919-927) and the single value path of
\* contentsAttack (1066-1074): after dorkRun
AttackResult(l) ==
    /\ At(l)
    /\ IF Len(res) = 0
       THEN UNCHANGED <<output, unflushed>>
       ELSE Flush(res, res)
    /\ Used
    /\ Return
    /\ UNCHANGED <<sysVars, frames, run, loopVars, exitCode, aborted, cutShort>>

\* subdomainAttack (lines 995-1018): the hosts of the links
SubdomainResult ==
    /\ At("sub_ret")
    /\ IF Len(res) = 0
       THEN UNCHANGED <<output, unflushed>>
       ELSE LET hosts == SelectSeq([i \in 1..Len(res) |-> hostOf(res[i])],
                                   LAMBDA h : h # <<>>)
            IN Flush(hosts, res)
    /\ Used
    /\ Return
    /\ UNCHANGED <<sysVars, frames, run, loopVars, exitCode, aborted, cutShort>>

\* extensionAttack (lines 930-944): the list of extensions
ExtensionStart ==
    /\ At("ext_attack")
    /\ all' = <<>>
    /\ eIdx' = 1
    /\ pc' = "ext_loop"
    /\ UNCHANGED <<sysVars, frames, run, stack, res, tIdx, cIdx, ran, rdfErr,
                   exitCode, output, hist, unflushed, aborted, cutShort>>

\* extensionAttack (lines 945-955 and 961-972): the head of the loop, and
\* the output after it
ExtensionLoop ==
    /\ At("ext_loop")
    /\ IF eIdx <= Len(cli.extension)
       THEN IF cancelled
            THEN /\ Return
                 /\ cutShort' = TRUE
                 /\ all' = <<>>
                 /\ eIdx' = 1
                 /\ UNCHANGED <<run, output, unflushed>>
            ELSE /\ CallRun(cli.extension[eIdx], "ext_ret")
                 /\ UNCHANGED <<output, unflushed, cutShort, all, eIdx>>
       ELSE /\ IF Len(all) = 0
               THEN UNCHANGED <<output, unflushed>>
               ELSE IF cli.outputPath # ""
               THEN Flush(uniqueStrings(all), all)
               ELSE /\ output' = output \o uniqueStrings(all)
                    /\ unflushed' = unflushed \ Range(all)
            /\ Return
            /\ all' = <<>>
            /\ eIdx' = 1
            /\ UNCHANGED <<run, cutShort>>
    /\ UNCHANGED <<sysVars, frames, res, tIdx, cIdx, ran, rdfErr, exitCode, hist,
                   aborted>>

\* extensionAttack (lines 956-958): after dorkRun
ExtensionResult ==
    /\ At("ext_ret")
    /\ all' = all \o res
    /\ eIdx' = eIdx + 1
    /\ Used
    /\ pc' = "ext_loop"
    /\ UNCHANGED <<sysVars, frames, run, stack, tIdx, cIdx, ran, rdfErr, exitCode,
                   output, unflushed, aborted, cutShort>>

\* contentsAttack (lines 1036-1040 and 1064-1065)
ContentsStart ==
    /\ At("cont_attack")
    /\ IF c.contents = "file"
       THEN /\ cIdx' = 1
            /\ pc' = "cont_loop"
            /\ UNCHANGED <<frames, stack, run>>
       ELSE /\ frames' = SetC([c EXCEPT !.inFile = buildContentsQuery(c.contents)])
            /\ CallRun("", "cont_single_ret")
            /\ UNCHANGED cIdx
    /\ UNCHANGED <<sysVars, res, all, eIdx, tIdx, ran, rdfErr, exitCode, output, hist,
                   unflushed, aborted, cutShort>>

\* contentsAttack (lines 1041-1047): one copy of the receiver per line
ContentsLoop ==
    /\ At("cont_loop")
    /\ IF cIdx <= Len(ContentLines)
       THEN /\ frames' = Append(frames, [c EXCEPT !.contents = ContentLines[cIdx],
                                                  !.inFile = <<ContentLines[cIdx]>>])
            /\ CallRun("", "cont_ret")
            /\ UNCHANGED cIdx
       ELSE /\ Return
            /\ cIdx' = 1
            /\ UNCHANGED <<frames, run>>
    /\ UNCHANGED <<sysVars, res, all, eIdx, tIdx, ran, rdfErr, exitCode, output, hist,
                   unflushed, aborted, cutShort>>

\* contentsAttack (lines 1048-1060): after dorkRun, in the loop
ContentsResult ==
    /\ At("cont_ret")
    /\ IF Len(res) = 0
       THEN UNCHANGED <<output, unflushed>>
       ELSE Flush(res, res)
    /\ Used
    /\ frames' = SubSeq(frames, 1, Len(frames) - 1)
    /\ cIdx' = cIdx + 1
    /\ pc' = "cont_loop"
    /\ UNCHANGED <<sysVars, run, stack, all, eIdx, tIdx, ran, rdfErr, exitCode,
                   aborted, cutShort>>

\* readDomainsFile (lines 658-699): the head of the loop, the copy c2 and
\* the mode it runs
ReadDomainsLoop ==
    /\ At("rdf_loop")
    /\ IF tIdx <= Len(cli.domainsFile)
       THEN IF cancelled
            THEN /\ rdfErr' = TRUE
                 /\ cutShort' = TRUE
                 /\ Return
                 /\ tIdx' = 1
                 /\ UNCHANGED <<frames, run>>
            ELSE LET c2 == [c EXCEPT !.target = cli.domainsFile[tIdx]]
                 IN /\ IF cli.dork # ""
                       THEN /\ CallRun("", "rdf_dork_ret")
                            /\ frames' = Append(frames, c2)
                            /\ UNCHANGED tIdx
                       ELSE IF cli.extension # <<>>
                       THEN /\ Call("ext_attack", "rdf_after")
                            /\ frames' = Append(frames, c2)
                            /\ UNCHANGED <<tIdx, run>>
                       ELSE IF cli.dictionary # <<>>
                       THEN /\ Call("dict_attack", "rdf_after")
                            /\ frames' = Append(frames, c2)
                            /\ UNCHANGED <<tIdx, run>>
                       ELSE IF cli.subdomainMode
                       THEN /\ Call("sub_attack", "rdf_after")
                            /\ frames' = Append(frames, c2)
                            /\ UNCHANGED <<tIdx, run>>
                       ELSE IF cli.contents # ""
                       THEN /\ Call("cont_attack", "rdf_after")
                            /\ frames' = Append(frames, c2)
                            /\ UNCHANGED <<tIdx, run>>
                       ELSE /\ tIdx' = tIdx + 1
                            /\ UNCHANGED <<pc, stack, frames, run>>
                    /\ UNCHANGED <<rdfErr, cutShort>>
       ELSE /\ rdfErr' = FALSE
            /\ Return
            /\ tIdx' = 1
            /\ UNCHANGED <<frames, run, cutShort>>
    /\ UNCHANGED <<sysVars, res, all, eIdx, cIdx, ran, exitCode, output, hist,
                   unflushed, aborted>>

\* ReadDomainsDorkResult if the copy c2 had a map of its own: what dorkRun
\* marked for one target is dropped with the copy
ReadDomainsDorkResultFreshMap ==
    /\ At("rdf_dork_ret")
    /\ frames' = SubSeq(frames, 1, Len(frames) - 1)
    /\ exhaustedKeys' = {}
    /\ Used
    /\ IF cancelled
       THEN /\ rdfErr' = TRUE
            /\ cutShort' = TRUE
            /\ Return
            /\ tIdx' = 1
            /\ UNCHANGED <<output, unflushed>>
       ELSE /\ IF Len(res) = 0
               THEN UNCHANGED <<output, unflushed>>
               ELSE Flush(res, res)
            /\ tIdx' = tIdx + 1
            /\ pc' = "rdf_loop"
            /\ UNCHANGED <<rdfErr, cutShort, stack>>
    /\ UNCHANGED <<inVars, sigVars, run, all, eIdx, cIdx, ran, exitCode, aborted>>

\* readDomainsFile (lines 671-678): after dorkRun
ReadDomainsDorkResult ==
    /\ At("rdf_dork_ret")
    /\ frames' = SubSeq(frames, 1, Len(frames) - 1)
    /\ Used
    /\ IF cancelled
       THEN /\ rdfErr' = TRUE
            /\ cutShort' = TRUE
            /\ Return
            /\ tIdx' = 1
            /\ UNCHANGED <<output, unflushed>>
       ELSE /\ IF Len(res) = 0
               THEN UNCHANGED <<output, unflushed>>
               ELSE Flush(res, res)
            /\ tIdx' = tIdx + 1
            /\ pc' = "rdf_loop"
            /\ UNCHANGED <<rdfErr, cutShort, stack>>
    /\ UNCHANGED <<sysVars, run, all, eIdx, cIdx, ran, exitCode, aborted>>

\* ReadDomainsAfter returning from readDomainsFile after the first attack
ReadDomainsAfterStops ==
    /\ At("rdf_after")
    /\ frames' = SubSeq(frames, 1, Len(frames) - 1)
    /\ rdfErr' = cancelled
    /\ cutShort' = (cutShort \/ cancelled)
    /\ Return
    /\ tIdx' = 1
    /\ UNCHANGED <<sysVars, run, res, all, eIdx, cIdx, ran, exitCode, output, hist,
                   unflushed, aborted>>

\* readDomainsFile (lines 680-698): after an attack
ReadDomainsAfter ==
    /\ At("rdf_after")
    /\ frames' = SubSeq(frames, 1, Len(frames) - 1)
    /\ IF cancelled
       THEN /\ rdfErr' = TRUE
            /\ cutShort' = TRUE
            /\ Return
            /\ tIdx' = 1
       ELSE /\ tIdx' = tIdx + 1
            /\ pc' = "rdf_loop"
            /\ UNCHANGED <<rdfErr, cutShort, stack>>
    /\ UNCHANGED <<sysVars, run, res, all, eIdx, cIdx, ran, exitCode, output, hist,
                   unflushed, aborted>>

(***************************************************************************)
(* main.                                                                   *)
(***************************************************************************)
\* lines 186-203: the domains file flow or the single target flow
MainStart ==
    /\ At("main")
    /\ IF cli.domainsFile # <<>>
       THEN /\ tIdx' = 1
            /\ Call("rdf_loop", "main_file")
       ELSE /\ pc' = "main_dict"
            /\ UNCHANGED <<stack, tIdx>>
    /\ UNCHANGED <<sysVars, frames, run, res, all, eIdx, cIdx, ran, rdfErr, exitCode,
                   output, hist, unflushed, aborted, cutShort>>

\* lines 188-196: readDomainsFile has returned
MainFileResult ==
    /\ At("main_file")
    /\ exitCode' = IF rdfErr THEN "130" ELSE "0"
    /\ UNCHANGED <<sysVars, frames, run, pc, stack, res, loopVars, output, hist,
                   unflushed, aborted, cutShort>>

\* lines 205-220: one of the attacks of the single target flow
MainAttack(l, wanted, entry, next) ==
    /\ At(l)
    /\ IF wanted
       THEN ran' = TRUE /\ Call(entry, next)
       ELSE pc' = next /\ UNCHANGED <<ran, stack>>
    /\ UNCHANGED <<sysVars, frames, run, res, all, eIdx, tIdx, cIdx, rdfErr, exitCode,
                   output, hist, unflushed, aborted, cutShort>>

\* lines 221-223: the custom query
MainDork ==
    /\ At("main_dork")
    /\ IF cli.dork # ""
       THEN ran' = TRUE /\ CallRun("", "main_dork_ret")
       ELSE pc' = "main_end" /\ UNCHANGED <<ran, stack, run>>
    /\ UNCHANGED <<sysVars, frames, res, all, eIdx, tIdx, cIdx, rdfErr, exitCode,
                   output, hist, unflushed, aborted, cutShort>>

\* lines 224-232: after dorkRun
MainDorkResult ==
    /\ At("main_dork_ret")
    /\ IF Len(res) = 0
       THEN /\ IF cancelled
               THEN exitCode' = "130" /\ UNCHANGED pc
               ELSE pc' = "main_end" /\ UNCHANGED exitCode
            /\ UNCHANGED <<output, unflushed>>
       ELSE /\ Flush(res, res)
            /\ pc' = "main_end"
            /\ UNCHANGED exitCode
    /\ Used
    /\ UNCHANGED <<sysVars, frames, run, stack, loopVars, aborted, cutShort>>

\* lines 234-237: the end of main
MainEnd ==
    /\ At("main_end")
    /\ exitCode' = IF ran THEN "0" ELSE "1"
    /\ UNCHANGED <<sysVars, frames, run, pc, stack, res, loopVars, output, hist,
                   unflushed, aborted, cutShort>>

(***************************************************************************)
(* Signals (main, lines 138-154).                                          *)
(***************************************************************************)
\* an interrupt or terminate signal is delivered: signal.Notify does not
\* block, a signal that finds sigCh full is dropped
SignalArrives ==
    /\ Running
    /\ count + Len(sigCh) < MaxSignals
    /\ sigCh' = IF Len(sigCh) < SigBuffer THEN Append(sigCh, "interrupt") ELSE sigCh
    /\ UNCHANGED <<inVars, exhaustedKeys, count, cancelled, frames, run, pc,
                   stack, res, loopVars, exitCode, output, hist, unflushed, aborted,
                   cutShort>>

\* the signal goroutine exiting at whatever signal it receives
SignalHandlerExits ==
    /\ Running
    /\ sigCh # <<>>
    /\ sigCh' = Tail(sigCh)
    /\ count' = count + 1
    /\ exitCode' = "130"
    /\ UNCHANGED <<inVars, exhaustedKeys, cancelled, frames, run, pc,
                   stack, res, loopVars, output, hist, unflushed, aborted, cutShort>>

\* the signal goroutine receives from sigCh
SignalHandler ==
    /\ Running
    /\ sigCh # <<>>
    /\ sigCh' = Tail(sigCh)
    /\ count' = count + 1
    /\ IF count + 1 = 1
       THEN cancelled' = TRUE /\ UNCHANGED exitCode
       ELSE exitCode' = "130" /\ UNCHANGED cancelled
    /\ UNCHANGED <<inVars, exhaustedKeys, frames, run, pc, stack, res,
                   loopVars, output, hist, unflushed, aborted, cutShort>>

Next ==
    \/ MainStart
    \/ MainFileResult
    \/ MainAttack("main_dict", cli.dictionary # <<>>, "dict_attack", "main_ext")
    \/ MainAttack("main_ext", cli.extension # <<>>, "ext_attack", "main_sub")
    \/ MainAttack("main_sub", cli.subdomainMode, "sub_attack", "main_cont")
    \/ MainAttack("main_cont", cli.contents # "", "cont_attack", "main_dork")
    \/ MainDork
    \/ MainDorkResult
    \/ MainEnd
    \/ ReadDomainsLoop
    \/ ReadDomainsDorkResult
    \/ ReadDomainsAfter
    \/ AttackStart("dict_attack", "dict_ret")
    \/ AttackStart("sub_attack", "sub_ret")
    \/ AttackResult("dict_ret")
    \/ AttackResult("cont_single_ret")
    \/ SubdomainResult
    \/ ExtensionStart
    \/ ExtensionLoop
    \/ ExtensionResult
    \/ ContentsStart
    \/ ContentsLoop
    \/ ContentsResult
    \/ RunStart
    \/ PageLoop
    \/ AttemptLoop
    \/ IssueCall
    \/ HandleResponse
    \/ EndAttempt
    \/ EmptyResponse
    \/ AttemptDelay
    \/ EndPage
    \/ FinishRun
    \/ SignalArrives
    \/ SignalHandler

Spec == Init /\ [][Next]_vars

\* one custom query on one target
NextRun ==
    \/ MainStart
    \/ MainAttack("main_dict", cli.dictionary # <<>>, "dict_attack", "main_ext")
    \/ MainAttack("main_ext", cli.extension # <<>>, "ext_attack", "main_sub")
    \/ MainAttack("main_sub", cli.subdomainMode, "sub_attack", "main_cont")
    \/ MainAttack("main_cont", cli.contents # "", "cont_attack", "main_dork")
    \/ MainDork
    \/ MainDorkResult
    \/ MainEnd
    \/ RunStart
    \/ PageLoop
    \/ AttemptLoop
    \/ IssueCall
    \/ HandleResponse
    \/ EndAttempt
    \/ EmptyResponse
    \/ AttemptDelay
    \/ EndPage
    \/ FinishRun
    \/ SignalArrives
    \/ SignalHandler

SpecRun == InitRun /\ [][NextRun]_vars

\* one custom query on one target (the command lines of RunLines with at
\* most two keys and at most two pages, or the default page count), where
\* the goroutine that executes dorkRun goes on whenever it can: every call
\* of httpGetJSON and every sleep returns, and the scheduler runs the
\* goroutine, so that the statements of dorkRun (lines 705-909) are taken
SpecRunLive ==
    /\ InitWith({ l \in RunLines : Len(l.keys) <= 2 /\ l.pages <= 2 }, {NoCall})
    /\ [][NextRun]_vars
    /\ WF_vars(RunStart \/ PageLoop \/ AttemptLoop \/ IssueCall \/ HandleResponse
                  \/ EndAttempt \/ EmptyResponse \/ AttemptDelay \/ EndPage
                  \/ FinishRun)

\* command lines of one target and one page that ask for extensions or
\* for subdomains, alone or together with a custom query and a dictionary
ModeLines ==
    { CommandLine(<<KeyNames[1]>>, 1, 0, FALSE, <<>>, m[1], m[2], m[3], m[4], m[5], "") :
        m \in { x \in {"", "login"} \X { <<>>, <<ExtNames[1]>> }
                        \X { <<>>, <<"a","d","m","i","n">> } \X BOOLEAN \X {""} :
                   x[2] # <<>> \/ x[4] } }

\* one target, the modes that main runs one after the other
NextModes ==
    \/ MainStart
    \/ MainAttack("main_dict", cli.dictionary # <<>>, "dict_attack", "main_ext")
    \/ MainAttack("main_ext", cli.extension # <<>>, "ext_attack", "main_sub")
    \/ MainAttack("main_sub", cli.subdomainMode, "sub_attack", "main_cont")
    \/ MainAttack("main_cont", cli.contents # "", "cont_attack", "main_dork")
    \/ MainDork
    \/ MainDorkResult
    \/ MainEnd
    \/ AttackStart("dict_attack", "dict_ret")
    \/ AttackStart("sub_attack", "sub_ret")
    \/ AttackResult("dict_ret")
    \/ SubdomainResult
    \/ ExtensionStart
    \/ ExtensionLoop
    \/ ExtensionResult
    \/ RunStart
    \/ PageLoop
    \/ AttemptLoop
    \/ IssueCall
    \/ HandleResponse
    \/ EndAttempt
    \/ EmptyResponse
    \/ AttemptDelay
    \/ EndPage
    \/ FinishRun
    \/ SignalArrives
    \/ SignalHandler

SpecModes == InitWith(ModeLines, {NoCall}) /\ [][NextModes]_vars

(***************************************************************************)
(* Functions taken on their own: unitCall holds the arguments of one call, *)
(* an action applies the function, main does not run.                      *)
(***************************************************************************)
\* the command line of the process the function is called in
IdleLine == CommandLine(<<KeyNames[1]>>, 1, 0, FALSE, <<>>, "", <<>>, <<>>, FALSE, "", "")

\* targets of filterLinks
FilterTargets == { <<"t">>, <<"e">> }

\* a link on the target's host with upper case letters
UpperLink(target) == <<"H",":","/","/">> \o target \o <<"/","1">>
\* a link on another host whose path ends with an escape that takes in the
\* first character of the target
OverlapLink(target) == OtherLink \o <<"%","3">> \o target
\* a link to the target's name on the provider's host, one letter escaped
HiddenProviderLink(target) ==
    Scheme \o <<"g","%","6","F","o","g","l","e","/">> \o target
\* a link on the target's host with an escaped space and the same link
\* with "+" for the space
SpaceLink(target) == TargetLink(target, 1) \o <<"%","2","0","a">>
PlusLink(target) == TargetLink(target, 1) \o <<"+","a">>

\* the raw links a response can hold for a target; the last is a link on
\* the target's host whose query string names the provider
RawLinks(target) ==
    { <<>>, TargetLink(target, 1), UpperLink(target), EscapedLink(target, 1),
      ProviderLink(target), OtherLink, OverlapLink(target),
      HiddenProviderLink(target), SpaceLink(target), PlusLink(target),
      TargetLink(target, 1) \o <<"?","q","=","G","o","o","g","l","e">> }

\* the sequences of at most n elements of S
RECURSIVE SeqsUpTo(_, _)
SeqsUpTo(S, n) ==
    IF n = 0 THEN { <<>> }
    ELSE SeqsUpTo(S, n - 1) \cup
         { Append(q, x) : q \in { r \in SeqsUpTo(S, n - 1) : Len(r) = n - 1 }, x \in S }

\* the calls filterLinks(items, target)
FilterCalls ==
    { [op |-> "filterLinks", items |-> l, target |-> t, done |-> FALSE, out |-> <<>>] :
        <<l, t>> \in UNION { SeqsUpTo(RawLinks(t), MaxLinks) \X {t} : t \in FilterTargets } }

InitFilter == InitWith({IdleLine}, FilterCalls)

\* filterLinks (lines 610-625) is applied to the arguments
ApplyFilterLinks ==
    /\ unitCall.op = "filterLinks"
    /\ ~unitCall.done
    /\ unitCall' = [unitCall EXCEPT
                      !.done = TRUE,
                      !.out = filterLinks(unitCall.items, unitCall.target)]
    /\ UNCHANGED mainVars

NextFilter == ApplyFilterLinks

SpecFilter == InitFilter /\ [][NextFilter]_vars

\* a result whose decoded form ends with a space (from "%20" or "+") and one
\* whose decoded form holds a newline (from "%0A")
TrailingSpaceLink(target) == TargetLink(target, 1) \o <<" ">>
NewlineLink(target) == TargetLink(target, 1) \o <<"x0A", "b">>

\* the results handed to the sink for the target
SinkEntries(target) ==
    { TargetLink(target, 1), TargetLink(target, 2), TrailingSpaceLink(target),
      NewlineLink(target) }

\* the calls outputOrPrintUnique(urls, "out.txt"): file is what the output
\* file holds (nothing, or results written earlier), before what it held
\* before the latest call, writes the number of calls made
SinkCalls ==
    { [op |-> "sink", urls |-> u, file |-> f, before |-> f, writes |-> 0] :
        u \in SeqsUpTo(SinkEntries(TargetNames[1]), MaxLinks),
        f \in SeqsUpTo({TargetLink(TargetNames[1], 1), TargetLink(TargetNames[1], 2)},
                       MaxFileLines) }

InitSink == InitWith({IdleLine}, SinkCalls)

\* outputOrPrintUnique (lines 482-518) is run with the same results once more
ApplySink ==
    /\ unitCall.op = "sink"
    /\ unitCall.writes < MaxWrites
    /\ unitCall' = [unitCall EXCEPT
                      !.before = unitCall.file,
                      !.file = outputOrPrintUnique(unitCall.file, unitCall.urls, "out.txt"),
                      !.writes = @ + 1]
    /\ UNCHANGED mainVars

NextSink == ApplySink

SpecSink == InitSink /\ [][NextSink]_vars

\* the entries an exclusion list is made of
ExclNames == { <<"a">>, <<"b",".","c">> }

\* an entry as it is written in the -x value or in the file: as it is, or
\* with spaces around it
Written(e, pad) == IF pad THEN <<" ">> \o e \o <<" ">> ELSE e

\* the -x value listing the entries: separated by commas
JoinComma(entries, pad) ==
    Flatten([i \in 1..Len(entries) |->
               (IF i = 1 THEN <<>> ELSE <<",">>) \o Written(entries[i], pad)])

\* the file listing the entries: one per line, with an empty line after
\* them when the lines are padded
ExclusionFile(entries, pad) ==
    FileOf([i \in 1..Len(entries) |-> Written(entries[i], pad)]
             \o (IF pad THEN << <<>> >> ELSE <<>>))

\* the name of the exclusions file
ExclusionFileName == <<"x",".","t","x","t">>

\* a command line of mode m, with or without -a, and -x given
ExclusionLine(m, a, entries, pad, asFile) ==
    [CommandLine(<<KeyNames[1]>>, 1, 0, a, <<>>, m[1], m[2], m[3], m[4], m[5], "")
       EXCEPT !.exclusions = IF asFile THEN ExclusionFileName
                             ELSE JoinComma(entries, pad),
              !.exclusionsFile = IF asFile THEN ExclusionFile(entries, pad)
                                 ELSE NoFile]

\* the configurations main builds from a command line with -x and the
\* queries dorkRun builds from them: entries is the exclusion list the
\* command line gives, step counts the functions applied
ExclusionCalls ==
    { [op |-> "exclusions", entries |-> l,
       line |-> ExclusionLine(m, a, l, pad, asFile),
       cfg |-> <<>>, queries |-> <<>>, step |-> 0] :
        l \in { x \in SeqsUpTo(ExclNames, MaxExcl) : Len(x) >= 1 },
        m \in Modes \ {NoMode},
        a \in BOOLEAN, pad \in BOOLEAN, asFile \in BOOLEAN }

\* the terms a dictionary is made of: two words and a word that holds the
\* sentinel of buildInurlQuery
DictNames == { <<"a">>, <<"b",".","z">>, <<"c","|","|","|","d">> }

\* a term as it is written in the -w value or in the file: as it is or in
\* double quotes, and with or without spaces around it
WrittenTerm(e, pad, quoted) ==
    Written(IF quoted THEN <<"\"">> \o e \o <<"\"">> ELSE e, pad)

\* the name of the dictionary file
DictionaryFileName == <<"w",".","t","x","t">>

\* the -w values and files that list the terms: separated by commas, or one
\* per line of a file (with an empty line after them when padded); for no
\* term, values and a file that hold none
DictionaryInputs(terms, pad, quoted) ==
    IF terms = <<>>
    THEN { [value |-> v, file |-> NoFile] :
             v \in { <<",">>, <<"\"","\"">>, <<" ">>, <<" ",","," ">> } }
         \cup { [value |-> DictionaryFileName, file |-> FileOf(<< <<" ">> >>)] }
    ELSE { [value |-> Join([i \in 1..Len(terms) |-> WrittenTerm(terms[i], pad, quoted)],
                           <<",">>),
            file |-> NoFile],
           [value |-> DictionaryFileName,
            file |-> FileOf([i \in 1..Len(terms) |-> WrittenTerm(terms[i], pad, quoted)]
                              \o (IF pad THEN << <<>> >> ELSE <<>>))] }

\* a command line of the dictionary mode, with or without -a
DictionaryLine(a, in) ==
    [CommandLine(<<KeyNames[1]>>, 1, 0, a, <<>>, "", <<>>, in.value, FALSE, "", "")
       EXCEPT !.dictionaryFile = in.file]

\* the configurations main builds from a command line with -w and the
\* queries dorkRun builds from them: entries is the list of terms the
\* command line gives
DictionaryCalls ==
    { [op |-> "dictionary", entries |-> x[1], line |-> DictionaryLine(x[2], x[3]),
       cfg |-> <<>>, queries |-> <<>>, step |-> 0] :
        x \in UNION { {l} \X BOOLEAN \X DictionaryInputs(l, pad, quoted) :
                        l \in SeqsUpTo(DictNames, MaxTerms),
                        pad \in BOOLEAN, quoted \in BOOLEAN } }

\* the calls whose arguments are a command line
LineOps == {"exclusions", "dictionary"}

InitQuery == InitWith({IdleLine}, ExclusionCalls \cup DictionaryCalls)

\* main, lines 176-184: the helpers, buildExclusions and buildInurlQuery
\* among them
ApplyBuildExclusions ==
    /\ unitCall.op \in LineOps
    /\ unitCall.step = 0
    /\ unitCall' = [unitCall EXCEPT !.cfg = MainConfig(unitCall.line), !.step = 1]
    /\ UNCHANGED mainVars

\* dorkRun, lines 742-843: the queries of an attempt (for one of the
\* extensions in the extension mode)
ApplyBuildQueries ==
    /\ unitCall.op \in LineOps
    /\ unitCall.step = 1
    /\ \E ext \in IF unitCall.line.extension = <<>> THEN {""}
                   ELSE Range(unitCall.line.extension) :
          unitCall' = [unitCall EXCEPT
                         !.queries = buildQueries(unitCall.line, unitCall.cfg, ext),
                         !.step = 2]
    /\ UNCHANGED mainVars

NextQuery == ApplyBuildExclusions \/ ApplyBuildQueries

SpecQuery == InitQuery /\ [][NextQuery]_vars

(***************************************************************************)
(* Properties.                                                             *)
(***************************************************************************)
\* the main goroutine is back in main with the result of dorkRun
RunReturned == pc = "main_dork_ret"

\* the pages whose offset a call of the current dorkRun carried
PagesCalled == { (s - 1) \div 10 : s \in hist.startsIssued }

\* two credentials, every call with quotaKey gets a quota error body and
\* every call with the other gets the links of the index
QuotaScenario == quotaKey # "" /\ Cardinality(Range(apiKeys)) = 2

\* C1: with two credentials of which one gets a quota error body on every
\* call and the other gets links, the first is in exhaustedKeys as soon as
\* a call made with it has been answered, dorkRun returns the links
\* obtained (a full run when nothing was cancelled), and dorkRun never
\* ends on "No valid API keys remaining" nor the process with status 1,
\* whichever credential the clock selects first.
C1_QuotaKeyExhaustedAndLinksReturned ==
    QuotaScenario =>
        /\ (pc = "dr_call" /\ run.urlIdx > 1 /\ run.apiKey = quotaKey /\ ~aborted)
              => quotaKey \in exhaustedKeys
        /\ (RunReturned /\ ~cancelled)
              => /\ res # <<>>
                 /\ Range(res) = hist.obtained
                 /\ Len(hist.yielded) = c.pages
        /\ hist.retVia # "nokeys"
        /\ exitCode # "1"

\* C1 witness: dorkRun has returned links of the second credential after
\* the first was selected, answered with a quota error and marked
C1_Witness ==
    /\ QuotaScenario
    /\ RunReturned
    /\ ~cancelled
    /\ exhaustedKeys = {quotaKey}
    /\ res # <<>>

\* C2: one dorkRun calls for at most c.pages distinct pages, and the
\* attempts of one page are at most the number of distinct credentials
C2_AttemptsWithinDistinctCredentials ==
    (pc \in {"dr_attempt", "dr_call", "dr_resp", "dr_eval", "dr_empty", "dr_delay"})
        => /\ Cardinality(PagesCalled) <= c.pages
           /\ hist.attempts <= Cardinality(Range(apiKeys))

\* C3: a selection made by getRandomApiKey (the step of the attempt loop
\* that is not stopped by cancellation) fails exactly when every loaded
\* credential is in exhaustedKeys, and otherwise yields a loaded
\* credential that is not in exhaustedKeys at that time
C3_SelectsOnlyAvailableKeys ==
    [][(At("dr_attempt") /\ run.triedKeys < Len(apiKeys) /\ ~cancelled /\ pc' # pc)
         => IF Range(apiKeys) \subseteq exhaustedKeys
            THEN hist'.retVia = "nokeys"
            ELSE /\ pc' = "dr_call"
                 /\ run'.apiKey \in Range(apiKeys) \ exhaustedKeys]_vars

\* C3 witness: a credential was selected while another one was exhausted
C3_Witness ==
    /\ pc = "dr_call"
    /\ run.urlIdx = 1
    /\ exhaustedKeys # {}
    /\ run.apiKey \notin exhaustedKeys

\* C4: when dorkRun returned at the cancellation check before page p, it
\* returned exactly the links of pages 0..p-1, p is less than the page
\* count, and no call carried the offset of page p
C4_CancelBeforePageReturnsAccumulated ==
    (RunReturned /\ hist.retVia = "page")
        => /\ res = Flatten(hist.yielded)
           /\ Len(hist.yielded) < c.pages
           /\ Len(hist.yielded) \notin PagesCalled
           /\ (10 * Len(hist.yielded) + 1) \notin hist.startsIssued

\* C4 witness: cancellation was observed before page 2 after pages 0 and
\* 1 yielded links
C4_Witness ==
    /\ RunReturned
    /\ hist.retVia = "page"
    /\ Len(hist.yielded) = 2
    /\ res # <<>>

\* C5: when the process has ended after at most one cancellation request,
\* every link accumulated before the cancellation was handed to the sink
C5_PartialResultsFlushed ==
    (~Running /\ count <= 1) => unflushed = {}

\* C6: a call in progress is never failed by the cancellation
C6_InFlightCallCompletes == ~aborted

\* C7: the first signal handled only cancels the context; every later
\* one ends the process with status 130 and writes nothing to the sink
C7_FirstSignalCancelsSecondExits ==
    [][count' = count + 1
         => IF count = 0
            THEN cancelled' /\ exitCode' = "running" /\ output' = output
            ELSE exitCode' = "130" /\ output' = output /\ pc' = pc]_vars

\* C7 witness: a second signal ended the process while links of completed
\* pages had not been handed to the sink
C7_Witness ==
    /\ count = 2
    /\ exitCode = "130"
    /\ cancelled
    /\ unflushed # {}

\* C8: a process whose work was stopped by a cancellation check ends with
\* status 130, never with status 0
C8_CancelledRunExits130 ==
    (~Running /\ cutShort) => exitCode = "130"

\* C9: no call is issued while an attempt has ended and no pacing wait
\* has followed it
C9_WaitAfterEveryAttempt ==
    pc = "dr_resp" => ~hist.needWait

\* C10: dynamicDelay of every Config is never negative
C10_DelayNeverNegative ==
    \A i \in 1..Len(frames) : ~Negative(frames[i].dynamicDelay)

\* C10 witness: a page succeeded with dynamicDelay at its least value,
\* 2 * 2^-57, which the success step left as it was
C10_Witness ==
    /\ pc = "dr_pageend"
    /\ c.resultsFound
    /\ cli.delay = 0
    /\ c.dynamicDelay = [n |-> 0, d |-> 2]
    /\ Len(c.requestStore) >= 6

\* C11: with a fixed delay (-d) no step of the engine changes dynamicDelay:
\* every configuration holds the initial value for the whole run.
C11_FixedDelayFreezesDynamicDelay ==
    cli.delay > 0 =>
        \A i \in 1..Len(frames) : frames[i].dynamicDelay = InitialDelay

\* a fixed delay, a page that yielded links and then an empty page
C11_Witness ==
    /\ cli.delay > 0
    /\ pc = "dr_delay"
    /\ ~run.respErr
    /\ Len(hist.yielded) >= 1
    /\ c.dynamicDelay = InitialDelay

\* C12: dynamicDelay is one value for the whole run: when the copy of the
\* configuration made for one target (or one content line) is dropped, the
\* configuration the next copy is made from holds the value the dropped
\* copy ended with.
C12_DelayCarriesOverToNextIntent ==
    [][Len(frames') < Len(frames) =>
          frames'[Len(frames')].dynamicDelay = frames[Len(frames)].dynamicDelay]_vars

\* C13: exhaustedKeys only grows: a step keeps every marked key marked, also
\* when the copy of the configuration made for a target is dropped; the only
\* change is the handling of a response, which adds the key of the call
\* (nothing, when that key is marked already); apiKeys never changes.
C13_ExhaustedSetOnlyGrows ==
    [][/\ exhaustedKeys \subseteq exhaustedKeys'
       /\ cli'.keys = cli.keys
       /\ (exhaustedKeys' # exhaustedKeys =>
              /\ pc = "dr_resp"
              /\ exhaustedKeys' = exhaustedKeys \cup {run.apiKey})]_vars

\* the key was marked during the first target of the file; the run for the
\* second target found no key to use
C13_Witness ==
    /\ pc = "rdf_dork_ret"
    /\ tIdx = 2
    /\ hist.retVia = "nokeys"
    /\ exhaustedKeys = Range(cli.keys)

\* C14: a call for page p (counted from 0) is issued only after each of the
\* pages 0..p-1 yielded links: once a page ends without links no call for a
\* later page is issued.
C14_NextPageOnlyAfterLinks ==
    \A p \in PagesCalled : p <= Len(hist.yielded)

\* an uncancelled run that ended on a page without links, after a page
\* with links and before the last page asked for
C14_Witness ==
    /\ RunReturned
    /\ hist.retVia = "end"
    /\ ~cancelled
    /\ Len(hist.yielded) >= 1
    /\ Len(hist.yielded) + 1 < c.pages
    /\ PagesCalled = 0..Len(hist.yielded)

\* C15: in a run over a domains file, whatever the run for one target
\* returned, readDomainsFile goes on to the next line unless the context is
\* cancelled: it starts every line in file order on a copy of the
\* configuration, returns without error only after the last line, returns
\* at once when cancelled, and the process exits only after readDomainsFile
\* returned or on the second signal.
C15_BatchContinuesUnlessCancelled ==
    [][/\ (pc \in {"rdf_dork_ret", "rdf_after"} /\ pc' # pc) =>
              IF cancelled
              THEN pc' = "main_file" /\ rdfErr'
              ELSE pc' = "rdf_loop" /\ tIdx' = tIdx + 1
       /\ (pc = "rdf_loop" /\ tIdx <= Len(cli.domainsFile)
               /\ <<pc, tIdx>>' # <<pc, tIdx>>) =>
              IF cancelled
              THEN pc' = "main_file" /\ rdfErr'
              ELSE IF cli.dork # "" \/ cli.extension # <<>> \/ cli.dictionary # <<>>
                      \/ cli.subdomainMode \/ cli.contents # ""
              THEN /\ Len(frames') = Len(frames) + 1
                   /\ frames'[Len(frames')].target = cli.domainsFile[tIdx]
                   /\ tIdx' = tIdx
              ELSE pc' = pc /\ tIdx' = tIdx + 1
       /\ (pc = "rdf_loop" /\ pc' = "main_file" /\ ~rdfErr') =>
              tIdx > Len(cli.domainsFile)
       /\ (cli.domainsFile # <<>> /\ exitCode' # exitCode) =>
              (pc = "main_file" \/ count' >= 2)]_vars

\* the run for the first target of the file ended with no result and the
\* only key marked; the run for the second target starts
C15_Witness ==
    /\ pc = "dr_start"
    /\ tIdx = 2
    /\ c.target = cli.domainsFile[2]
    /\ output = <<>>
    /\ exhaustedKeys # {}
    /\ ~cancelled

\* C16: for every list of raw links and every target, the result of
\* filterLinks holds no entry twice and every entry contains the target,
\* letter case ignored.
C16_FilterOutputUniqueAndOnTarget ==
    (unitCall.op = "filterLinks" /\ unitCall.done) =>
        /\ \A i, j \in 1..Len(unitCall.out) :
              unitCall.out[i] = unitCall.out[j] => i = j
        /\ \A i \in 1..Len(unitCall.out) :
              Contains(ToLower(unitCall.out[i]), ToLower(unitCall.target))

\* C17: the result of filterLinks holds no link whose host contains
\* "google", letter case ignored.
C17_FilterOutputHasNoProviderHost ==
    (unitCall.op = "filterLinks" /\ unitCall.done) =>
        \A i \in 1..Len(unitCall.out) :
            ~Contains(ToLower(hostOf(unitCall.out[i])), <<"g","o","o","g","l","e">>)

\* C18: running outputOrPrintUnique a second time with the same results on
\* the same file appends nothing: the file is what it was after the first
\* run.
C18_SecondSinkRunAppendsNothing ==
    (unitCall.op = "sink" /\ unitCall.writes >= 2) => unitCall.file = unitCall.before

\* C19: a write only appends: the lines the file held before the write are
\* its first lines after it, and the lines added are the results that were
\* not among the lines read at the start of the write, each once.
C19_SinkAppendsExactlyNewEntries ==
    (unitCall.op = "sink" /\ unitCall.writes >= 1) =>
        LET old == unitCall.before
            new == unitCall.file
            uniq == uniqueStrings(unitCall.urls)
            added == SubSeq(new, Len(old) + 1, Len(new))
        IN /\ Len(new) >= Len(old)
           /\ SubSeq(new, 1, Len(old)) = old
           /\ Range(added) = { u \in Range(uniq) : u \notin Range(readLines(old)) }
           /\ \A i, j \in 1..Len(added) : added[i] = added[j] => i = j

\* C20: for an exclusion list of k >= 1 entries buildExclusions returns
\* "-site:" and the first entry, then "+-" and each later entry, in the
\* order of the list; every query dorkRun builds, in every mode, ends with
\* that clause.
C20_ExclusionClauseOnEveryQuery ==
    unitCall.op = "exclusions" =>
        LET l == unitCall.entries
            clause == Flatten([i \in 1..Len(l) |->
                         (IF i = 1 THEN <<"-","s","i","t","e",":">> ELSE <<"+","-">>)
                           \o l[i]])
        IN /\ unitCall.step >= 1 => unitCall.cfg.excludeTargets = clause
           /\ unitCall.step = 2 =>
                 /\ Len(unitCall.queries) >= 1
                 /\ \A i \in 1..Len(unitCall.queries) :
                       unitCall.queries[i].excl = clause

\* a padded list of three entries, two of them the same, read from a file;
\* the queries of the subdomain-wide custom query are built
C20_Witness ==
    /\ unitCall.op = "exclusions"
    /\ unitCall.step = 2
    /\ unitCall.entries = << <<"b",".","c">>, <<"a">>, <<"b",".","c">> >>
    /\ unitCall.line.exclusionsFile.exists
    /\ Len(unitCall.queries) = 4
    /\ unitCall.queries[4].excl =
          <<"-","s","i","t","e",":","b",".","c","+","-","a","+","-","b",".","c">>

\* C21: in dictionary mode with T >= 1 non-empty terms an attempt builds,
\* with -a, three queries for every term in order (inurl:"<term>" under
\* site:*.target, site:*.*.target and site:*.*.*.target), 3*T in all, and
\* without -a one query for every term under site:target, T in all.
C21_DictionaryQueriesPerTerm ==
    (unitCall.op = "dictionary" /\ unitCall.step = 2 /\ Len(unitCall.entries) >= 1) =>
        LET terms == unitCall.entries
        IN unitCall.queries =
             IF unitCall.line.includeSubdomains
             THEN Flatten([i \in 1..Len(terms) |->
                     << Query(1, "inurl", terms[i]), Query(2, "inurl", terms[i]),
                        Query(3, "inurl", terms[i]) >>])
             ELSE [i \in 1..Len(terms) |-> Query(0, "inurl", terms[i])]

\* C22: on one page no credential is selected for a second attempt: the
\* credential an attempt is made with was not selected before on that page.
C22_OneAttemptPerCredentialPerPage ==
    [][(pc = "dr_attempt" /\ pc' = "dr_call") =>
          run'.apiKey \notin hist.triedOnPage]_vars

\* C23: when an attempt ends without links after a quota error for its
\* credential k while another credential is neither in exhaustedKeys nor
\* tried on the page, the attempt loop of the page goes on (the attempt
\* budget is not used up), and the credential an attempt is made with is
\* never in exhaustedKeys, so the next attempt uses another credential.
C23_QuotaErrorRetriesWithOtherCredential ==
    [][/\ (/\ pc = "dr_eval" /\ pc' = "dr_delay"
           /\ run.apiKey \in exhaustedKeys
           /\ Len(uniqueStrings(run.combined)) = 0
           /\ Range(apiKeys) \ (exhaustedKeys \cup hist.triedOnPage) # {})
          => run'.triedKeys < Len(apiKeys)
       /\ (pc = "dr_attempt" /\ pc' = "dr_call") => run'.apiKey \notin exhaustedKeys]_vars

\* C24: exhaustedKeys changes only when a response is handled; a response
\* that is not a transport or decoding error and whose error message
\* contains "quota" (letter case ignored) adds the key of its call, and
\* every other response (transport error, other message, empty or
\* non-empty list of links) leaves exhaustedKeys as it is.
C24_OnlyQuotaResponsesMarkTheirKey ==
    [][IF pc = "dr_resp" /\ pc' = "dr_call"
       THEN LET r == hist'.answer
            IN IF ~r.err /\ Contains(ToLower(r.message), <<"q","u","o","t","a">>)
               THEN exhaustedKeys' = exhaustedKeys \cup {run.inflight.key}
               ELSE exhaustedKeys' = exhaustedKeys
       ELSE exhaustedKeys' = exhaustedKeys]_vars

\* a response with another error message was handled with a key that is
\* not marked, after the other key was marked
C24_Witness ==
    /\ pc = "dr_call"
    /\ hist.answer.message = OtherMessage
    /\ run.apiKey \notin exhaustedKeys
    /\ exhaustedKeys # {}

\* C25: without a fixed delay, when the attempts of a page are over and the
\* page has no links (the response was empty, or every attempt failed),
\* dynamicDelay is the value it had when the page was started plus 0.1.
C25_DelayGrowsAfterPageWithoutLinks ==
    (pc = "dr_pageend" /\ ~c.resultsFound /\ cli.delay = 0) =>
        c.dynamicDelay = PlusTenth(hist.pageDelay)

\* C26: when dorkRun returns because it observed the cancellation (before a
\* page, before an attempt or before a call), every filtered link that a
\* completed call of this dorkRun yielded, the links of the earlier calls of
\* the attempt in progress included, is in the returned result.
C26_CancelledRunReturnsAllObtained ==
    (RunReturned /\ hist.retVia \in {"page", "attempt", "call"}) =>
        hist.obtained \subseteq Range(res)

\* C27: every call of page p (counted from 0) carries the start offset
\* 10*p + 1: all queries of every attempt of the page, the call in flight
\* included; the offsets a dorkRun has used so far are 1, 11, 21, ... with
\* none left out, up to the offset of the page it is on.
C27_StartOffsetOfPage ==
    /\ pc \in {"dr_call", "dr_resp", "dr_eval"} =>
          \A i \in 1..Len(run.urls) : run.urls[i].start = 10 * run.page + 1
    /\ pc = "dr_resp" => run.inflight.start = 10 * run.page + 1
    /\ pc \in {"dr_page", "dr_attempt", "dr_call", "dr_resp", "dr_eval", "dr_empty",
               "dr_delay", "dr_pageend"} =>
          \E n \in {run.page, run.page + 1} :
              hist.startsIssued = { 10 * q + 1 : q \in 0..(n - 1) }

\* the second query of a second attempt on the third page is in flight
C27_Witness ==
    /\ pc = "dr_resp"
    /\ run.page = 2
    /\ hist.attempts = 2
    /\ run.urlIdx = 2
    /\ hist.startsIssued = {1, 11, 21}

\* C28: in the dictionary mode, when the input gives no term once every
\* entry is trimmed, stripped of its quotes and the empty entries are
\* dropped (the values "," and "\"\"", a blank value, a file of blank lines),
\* dorkRun builds no query, so that no call can be issued for the target.
C28_EmptyTermListBuildsNoQuery ==
    (unitCall.op = "dictionary" /\ unitCall.step = 2 /\ unitCall.entries = <<>>) =>
        unitCall.queries = <<>>

\* C29: the credential of a call in flight was not in exhaustedKeys when
\* the call was issued (the set changes only when a call has returned, so
\* this is the set at the time of the call); in particular the queries
\* that follow a quota error in an attempt are not sent with its key.
C29_NoCallWithExhaustedKey ==
    pc = "dr_resp" => run.inflight.key \notin exhaustedKeys

\* C30: once the cancellation has been requested dorkRun executes no
\* delayControl that sleeps: at the calls of lines 887 and 894 with a
\* positive effective delay the main goroutine does not go on into the
\* sleep while the context is cancelled.
C30_NoSleepAfterCancellation ==
    [][ (cancelled /\ Running /\ pc \in {"dr_empty", "dr_delay"} /\ Sleeps(c))
            => pc' = pc ]_vars

\* C31: every dorkRun that is started ends: whatever the provider answers
\* and whenever the signals arrive, the attempt loop and the page loop end
\* and dorkRun returns to its caller (or the process has exited, on the
\* second signal).
C31_DorkRunTerminates ==
    (Running /\ pc = "dr_start") ~> (RunReturned \/ ~Running)

\* dorkRun has returned from the end of the page loop after two pages with
\* links and a quota error
C31_Witness ==
    /\ RunReturned
    /\ Running
    /\ hist.retVia = "end"
    /\ Len(hist.yielded) = 2
    /\ exhaustedKeys # {}

\* C32: filterLinks keeps, in its decoded form, every non-empty link that
\* contains the target (letter case ignored) and whose host does not
\* contain "google" (letter case ignored), whatever its path and its query
\* string hold.
C32_FilterKeepsTargetLinksOffProviderHost ==
    (unitCall.op = "filterLinks" /\ unitCall.done) =>
        \A i \in 1..Len(unitCall.items) :
            LET l == unitCall.items[i]
            IN (/\ l # <<>>
                /\ Contains(ToLower(l), ToLower(unitCall.target))
                /\ ~Contains(ToLower(hostOf(l)), <<"g","o","o","g","l","e">>))
                   => \E j \in 1..Len(unitCall.out) :
                         unitCall.out[j] = urlDecodeLikeSed(l)

\* C33: whatever other mode flags the command line holds, every call of a
\* dorkRun started by extensionAttack for the extension e carries a query
\* with the clause filetype:e or ext:e, and every call of the dorkRun
\* started by subdomainAttack carries the query site:<target> and nothing
\* else.
C33_QueriesHaveShapeOfTheirMode ==
    pc = "dr_resp" =>
        /\ Head(stack) = "ext_ret" =>
              /\ run.inflight.q.clause \in {"filetype", "ext"}
              /\ run.inflight.q.term = run.ext
        /\ Head(stack) = "sub_ret" =>
              /\ run.inflight.q.scope = 0
              /\ run.inflight.q.clause = ""

====
